---- MODULE Spec2Model ----
(***************************************************************************)
(* A model of rda::sudoku (sudoku.h): grid addressing (point_t), the       *)
(* candidate engine (remove_candidates_*, find_candidates), is_completed   *)
(* and the backtracking solver solve_recursive.                            *)
(*                                                                         *)
(* Board positions are 0-based as in the C++ code; board_t is a sequence,  *)
(* read through At(board, i).  Each recursive invocation of                *)
(* solve_recursive is one frame of `stack`, owning its own board copy.     *)
(***************************************************************************)
EXTENDS Integers, Sequences, FiniteSets

VARIABLES
    op,          \* the operation under test: "solve", "find_candidates", "king", "knight"
    board,       \* the board handed to the operation
    p,           \* the point handed to find_candidates / remove_candidates_chess_*
    pc,          \* "running", "returning", "done"
    stack,       \* call stack of solve_recursive, innermost frame last
    ret,         \* value being returned by the frame that just finished
    results,     \* results[1] = solve(board), results[2] = solve(solve(board))
    candidates,  \* the std::vector<cell_t> candidates of the candidate engine
    initial,     \* the candidate list as handed to remove_candidates_chess_*
    k,           \* number of move deltas already processed (king / knight)
    reads,       \* board positions read by the chess removal so far
    undefined,   \* TRUE once the run has executed undefined behaviour
    crashed      \* TRUE when that undefined behaviour ended the process

vars == <<op, board, p, pc, stack, ret, results, candidates, initial, k, reads,
          undefined, crashed>>

-----------------------------------------------------------------------------
(* Program constants *)

\* number of columns per row / rows per column
Side == 9

\* board.size() of a valid board
Cells == 81

\* edge of a 3x3 "mini box"
BoxSide == 3

\* upper bound accepted by point_t::valid()
ValidMax == 9

Digits == 1 .. 9

\* the "no solution" result, board_t()
EmptyBoard == << >>

At(b, i) == b[i + 1]

\* the board b with value v at position i
With(b, i, v) == [n \in 1 .. Len(b) |-> IF n = i + 1 THEN v ELSE b[n]]

-----------------------------------------------------------------------------
(* point_t *)

Point(c, r) == [column |-> c, row |-> r]

idx(c, r) == Side * r + c

r_idx(index) == Point(index % Side, index \div Side)

get_box_start(q) == Point((q.column \div BoxSide) * BoxSide, (q.row \div BoxSide) * BoxSide)

PointAdd(q, rhs) == Point(rhs.column + q.column, rhs.row + q.row)

valid(q) == q.column >= 0 /\ q.column <= ValidMax /\ q.row >= 0 /\ q.row <= ValidMax

-----------------------------------------------------------------------------
(* candidate engine *)

\* candidates.erase(std::remove(begin, end, v), end)
EraseRemove(cands, v) == SelectSeq(cands, LAMBDA x : x # v)

RECURSIVE ColumnLoop(_, _, _, _)
ColumnLoop(cands, b, column, row) ==
    IF row < Side
    THEN ColumnLoop(EraseRemove(cands, At(b, idx(column, row))), b, column, row + 1)
    ELSE cands

remove_candidates_sudoku_column(cands, b, column) == ColumnLoop(cands, b, column, 0)

RECURSIVE RowLoop(_, _, _, _)
RowLoop(cands, b, row, col) ==
    IF col < Side
    THEN RowLoop(EraseRemove(cands, At(b, idx(col, row))), b, row, col + 1)
    ELSE cands

remove_candidates_sudoku_row(cands, b, row) == RowLoop(cands, b, row, 0)

RECURSIVE BoxLoop(_, _, _, _, _)
BoxLoop(cands, b, box_start, col, row) ==
    IF col < box_start.column + BoxSide
    THEN IF row < box_start.row + BoxSide
         THEN BoxLoop(EraseRemove(cands, At(b, idx(col, row))), b, box_start, col, row + 1)
         ELSE BoxLoop(cands, b, box_start, col + 1, box_start.row)
    ELSE cands

remove_candidates_sudoku_3x3_box(cands, b, q) ==
    LET box_start == get_box_start(q)
    IN  BoxLoop(cands, b, box_start, box_start.column, box_start.row)

AllCandidates == <<1, 2, 3, 4, 5, 6, 7, 8, 9>>

\* find_candidates without the pass over the 3x3 box
find_candidates_no_box(b, q) ==
    LET c1 == remove_candidates_sudoku_column(AllCandidates, b, q.column)
    IN  remove_candidates_sudoku_row(c1, b, q.row)

\* find_candidates computing its result as if the cell at q were empty
find_candidates_as_if_empty(b, q) ==
    LET e == With(b, idx(q.column, q.row), 0)
        c1 == remove_candidates_sudoku_column(AllCandidates, e, q.column)
        c2 == remove_candidates_sudoku_row(c1, e, q.row)
    IN  remove_candidates_sudoku_3x3_box(c2, e, q)

find_candidates(b, q) ==
    LET c1 == remove_candidates_sudoku_column(AllCandidates, b, q.column)
        c2 == remove_candidates_sudoku_row(c1, b, q.row)
    IN  remove_candidates_sudoku_3x3_box(c2, b, q)

\* the board positions find_candidates(board, q) reads
CandidateReads(q) ==
    LET box_start == get_box_start(q)
    IN  {idx(q.column, row) : row \in 0 .. Side - 1}
        \cup {idx(col, q.row) : col \in 0 .. Side - 1}
        \cup {idx(col, row) : col \in box_start.column .. box_start.column + BoxSide - 1,
                              row \in box_start.row .. box_start.row + BoxSide - 1}

-----------------------------------------------------------------------------
(* is_completed *)

is_completed(b) ==
    IF Len(b) # Cells
    THEN FALSE
    ELSE \A n \in 1 .. Len(b) : b[n] # 0

-----------------------------------------------------------------------------
(* solve_recursive: one frame per invocation *)

\* conversion to cell_t (int8_t)
ToCell(x) == ((x + 128) % 256) - 128

\* the recursive call resuming at the cell just filled: solve_recursive(b, i)
NextIndex_same(i) == ToCell(i)

\* the start index of the recursive call: solve_recursive(b, i + 1)
NextIndex(i) == ToCell(i + 1)

\* the candidate stored one position early: b[i - 1] = pos
Place_one_early(b, i, pos) == IF i >= 1 THEN [b EXCEPT ![i] = pos] ELSE b

\* board_t b(board); b[i] = pos;
Place(b, i, pos) == [b EXCEPT ![i + 1] = pos]

\* the frame of a call solve_recursive(b, start_index), before its first statement
Frame(b, start_index) ==
    [board |-> b, start_index |-> start_index, st |-> "call",
     i |-> start_index, possibilties |-> << >>, tried |-> 0]

\* for (cell_t i = start_index; i < 81; ++i) { if (board[i] != 0) continue; ...
\* the first i at which the loop does not `continue`: a position outside the
\* vector, an empty cell, or 81 when the loop runs out
RECURSIVE ScanFrom(_, _)
ScanFrom(b, i) ==
    IF i < Cells /\ i < Len(b) /\ At(b, i) # 0
    THEN ScanFrom(b, i + 1)
    ELSE i

\* what a read past the end of the vector may deliver
Garbage == 0 .. 9

\* the board as the reads of find_candidates see it when some of them fall
\* past the end of the vector
Padded(b, g) == [n \in 1 .. Cells |-> IF n <= Len(b) THEN b[n] ELSE g]

Top == stack[Len(stack)]

SetTop(f) == [stack EXCEPT ![Len(stack)] = f]

\* `return v;` of the innermost frame
Return(v) ==
    /\ stack' = SubSeq(stack, 1, Len(stack) - 1)
    /\ ret' = v
    /\ pc' = "returning"

Solving == op = "solve" /\ pc = "running" /\ stack # << >>

Untouched == UNCHANGED <<op, board, p, candidates, initial, k, reads>>

\* if (is_completed(board)) return board;
ReturnCompleted ==
    /\ Solving
    /\ Top.st = "call"
    /\ is_completed(Top.board)
    /\ Return(Top.board)
    /\ UNCHANGED <<results, undefined, crashed>>
    /\ Untouched

\* the loop reaches an empty cell: build its candidate list
ScanBranch ==
    /\ Solving
    /\ Top.st = "call"
    /\ ~is_completed(Top.board)
    /\ LET i == ScanFrom(Top.board, Top.start_index)
       IN  /\ i < Cells
           /\ i < Len(Top.board)
           /\ \A r \in CandidateReads(r_idx(i)) : r < Len(Top.board)
           /\ stack' = SetTop([Top EXCEPT !.st = "loop", !.i = i,
                                   !.possibilties = find_candidates(Top.board, r_idx(i))])
    /\ UNCHANGED <<pc, ret, results, undefined, crashed>>
    /\ Untouched

\* the loop runs to i = 81 without meeting an empty cell: return board_t()
ScanNoSolution ==
    /\ Solving
    /\ Top.st = "call"
    /\ ~is_completed(Top.board)
    /\ ScanFrom(Top.board, Top.start_index) = Cells
    /\ Return(EmptyBoard)
    /\ UNCHANGED <<results, undefined, crashed>>
    /\ Untouched

\* board[i] with i >= board.size(): the read is undefined behaviour.  It faults,
\* or it delivers garbage; with garbage the frame still ends in `return board_t()`
\* unless it goes on to the store b[i] = pos outside the vector, after which the
\* process state is no longer one the model describes.
ScanPastEnd ==
    /\ Solving
    /\ Top.st = "call"
    /\ ~is_completed(Top.board)
    /\ LET i == ScanFrom(Top.board, Top.start_index)
       IN  i < Cells /\ i >= Len(Top.board)
    /\ undefined' = TRUE
    /\ \E outcome \in {"fault", "garbage"} :
          \/ /\ outcome = "fault"
             /\ crashed' = TRUE
             /\ pc' = "done"
             /\ stack' = << >>
             /\ results' = Append(results, EmptyBoard)
             /\ UNCHANGED ret
          \/ /\ outcome = "garbage"
             /\ Return(EmptyBoard)
             /\ UNCHANGED <<results, crashed>>
    /\ Untouched

\* the empty cell is inside the vector but find_candidates reads past its end
ScanBranchPastEnd ==
    /\ Solving
    /\ Top.st = "call"
    /\ ~is_completed(Top.board)
    /\ LET i == ScanFrom(Top.board, Top.start_index)
       IN  /\ i < Cells
           /\ i < Len(Top.board)
           /\ \E r \in CandidateReads(r_idx(i)) : r >= Len(Top.board)
           /\ undefined' = TRUE
           /\ \/ /\ crashed' = TRUE
                 /\ pc' = "done"
                 /\ stack' = << >>
                 /\ results' = Append(results, EmptyBoard)
                 /\ UNCHANGED ret
              \/ /\ \E g \in Garbage :
                       stack' = SetTop([Top EXCEPT !.st = "loop", !.i = i,
                                   !.possibilties =
                                       find_candidates(Padded(Top.board, g), r_idx(i))])
                 /\ UNCHANGED <<pc, ret, results, crashed>>
    /\ Untouched

\* for (auto pos : possibilties) { board_t b(board); b[i] = pos;
\*                                 auto attempt = solve_recursive(b, i + 1);
TryCandidate ==
    /\ Solving
    /\ Top.st = "loop"
    /\ Top.tried < Len(Top.possibilties)
    /\ LET pos == Top.possibilties[Top.tried + 1]
       IN  stack' = Append(SetTop([Top EXCEPT !.tried = Top.tried + 1]),
                           Frame(Place(Top.board, Top.i, pos), NextIndex(Top.i)))
    /\ UNCHANGED <<pc, ret, results, undefined, crashed>>
    /\ Untouched

\* `return board_t()` placed inside the candidate loop: the frame gives up as
\* soon as one attempt has failed
DeadEnd_after_first ==
    /\ Solving
    /\ Top.st = "loop"
    /\ (Top.tried >= 1 \/ Top.tried = Len(Top.possibilties))
    /\ Return(EmptyBoard)
    /\ UNCHANGED <<results, undefined, crashed>>
    /\ Untouched

\* none of the candidates were viable. return empty board
DeadEnd ==
    /\ Solving
    /\ Top.st = "loop"
    /\ Top.tried = Len(Top.possibilties)
    /\ Return(EmptyBoard)
    /\ UNCHANGED <<results, undefined, crashed>>
    /\ Untouched

\* if (is_completed(attempt)) return attempt;
ReturnAttempt ==
    /\ op = "solve" /\ pc = "returning" /\ stack # << >>
    /\ is_completed(ret)
    /\ Return(ret)
    /\ UNCHANGED <<results, undefined, crashed>>
    /\ Untouched

\* the attempt is not complete: on to the next candidate
NextCandidate ==
    /\ op = "solve" /\ pc = "returning" /\ stack # << >>
    /\ ~is_completed(ret)
    /\ pc' = "running"
    /\ UNCHANGED <<stack, ret, results, undefined, crashed>>
    /\ Untouched

\* the outermost call returns to the caller of solve
Finish ==
    /\ op = "solve" /\ pc = "returning" /\ stack = << >>
    /\ results' = Append(results, ret)
    /\ pc' = "done"
    /\ UNCHANGED <<stack, ret, undefined, crashed>>
    /\ Untouched

\* the caller feeds the result back: solve(solve(board))
SolveAgain ==
    /\ op = "solve" /\ pc = "done" /\ Len(results) = 1 /\ ~crashed
    /\ stack' = <<Frame(results[1], 0)>>
    /\ pc' = "running"
    /\ UNCHANGED <<ret, results, undefined, crashed>>
    /\ Untouched

-----------------------------------------------------------------------------
(* find_candidates and the chess removals, called on their own *)

CallFindCandidates ==
    /\ op = "find_candidates" /\ pc = "running"
    /\ candidates' = find_candidates(board, p)
    /\ pc' = "done"
    /\ UNCHANGED <<op, board, p, stack, ret, results, initial, k, reads, undefined, crashed>>

king_move_deltas ==
    <<Point(-1, -1), Point(-1, 0), Point(-1, 1), Point(0, -1),
      Point(0, 1), Point(1, -1), Point(1, 0), Point(1, 1)>>

knight_move_deltas ==
    <<Point(-2, -1), Point(-2, 1), Point(2, -1), Point(2, 1),
      Point(-1, -2), Point(-1, 2), Point(1, -2), Point(1, 2)>>

\* candidates.erase(std::remove(begin, end, v)) when v occurs in the list: the
\* elements other than v move to the front and the single element at the
\* returned iterator is erased
EraseAtRemove(cands, v) ==
    LET kept == EraseRemove(cands, v)
    IN  kept \o SubSeq(cands, Len(kept) + 2, Len(cands))

\* candidates.erase(candidates.end()), reached when v does not occur in the
\* list: undefined behaviour.  Builds that survive it leave the list as it was
\* or shorten it by its last element.
EraseAtEnd(cands) ==
    {cands} \cup (IF cands = << >> THEN {} ELSE {SubSeq(cands, 1, Len(cands) - 1)})

\* one iteration of `for (auto& delta : deltas)`
ChessStep(deltas) ==
    /\ pc = "running"
    /\ k < Len(deltas)
    /\ LET board_position == PointAdd(p, deltas[k + 1])
           index == idx(board_position.column, board_position.row)
           last == k + 1 = Len(deltas)
           Faulted == /\ undefined' = TRUE
                      /\ crashed' = TRUE
                      /\ pc' = "done"
                      /\ UNCHANGED candidates
           Removed(v, past_end) ==
               IF \E n \in 1 .. Len(candidates) : candidates[n] = v
               THEN /\ candidates' = EraseAtRemove(candidates, v)
                    /\ pc' = IF last THEN "done" ELSE pc
                    /\ undefined' = (undefined \/ past_end)
                    /\ UNCHANGED crashed
               ELSE \/ Faulted
                    \/ /\ undefined' = TRUE
                       /\ candidates' \in EraseAtEnd(candidates)
                       /\ pc' = IF last THEN "done" ELSE pc
                       /\ UNCHANGED crashed
       IN  IF valid(board_position)
           THEN /\ reads' = reads \cup {index}
                /\ IF index < Len(board)
                   THEN Removed(At(board, index), FALSE)
                   ELSE \/ Faulted
                        \/ \E g \in Garbage : Removed(g, TRUE)
           ELSE /\ pc' = IF last THEN "done" ELSE pc
                /\ UNCHANGED <<candidates, reads, undefined, crashed>>
    /\ k' = k + 1
    /\ UNCHANGED <<op, board, p, stack, ret, results, initial>>

remove_candidates_chess_king == op = "king" /\ ChessStep(king_move_deltas)

remove_candidates_chess_knight == op = "knight" /\ ChessStep(knight_move_deltas)

-----------------------------------------------------------------------------
(* the boards and points the operations are called with *)

\* a solved grid: row 0 is 9 8 7 6 5 4 3 2 1, each later row a shift of it
SeedCell(i) ==
    LET r == i \div Side
        c == i % Side
    IN  Side - ((BoxSide * (r % BoxSide) + (r \div BoxSide) + c) % Side)

SeedBoard == [n \in 1 .. Cells |-> SeedCell(n - 1)]

\* positions that may be blanked, in the order the bound admits them
HoleList == <<0, 1, 8, 72, 40, 80>>

\* how many positions of HoleList may be blanked
MaxHoles == 4

HoleCells == {HoleList[n] : n \in 1 .. (IF MaxHoles < Len(HoleList) THEN MaxHoles ELSE Len(HoleList))}

Blank(b, H) == [n \in 1 .. Len(b) |-> IF (n - 1) \in H THEN 0 ELSE b[n]]

\* the seed with any set of the admitted positions blanked
Puzzles == {Blank(SeedBoard, H) : H \in SUBSET HoleCells}

\* a given overwritten: position 27 (row 3, column 0, seed value 8) made empty,
\* made 7 (a second 7 in row 3) or made 9 (a second 9 in row 3)
TamperCell == idx(0, 3)

TamperValues == {0, 7, 9}

Tampered == {With(b, TamperCell, v) : b \in Puzzles, v \in TamperValues}

Boards81 == Puzzles \cup Tampered

\* boards of a length other than 81: one cell short, one cell long, and board_t()
OtherLengths ==
    {SubSeq(b, 1, Cells - 1) : b \in Puzzles}
        \cup {Append(b, 0) : b \in Puzzles}
        \cup {EmptyBoard}

ProbePoints == {r_idx(i) : i \in {0, 1, 8, 27, 40, 72}}

ChessPoints == {r_idx(i) : i \in {0, 8, 40, 72, 80}}

CandidateLists == {AllCandidates, <<2, 5, 8>>, << >>}

Init ==
    /\ pc = "running"
    /\ ret = EmptyBoard
    /\ results = << >>
    /\ k = 0
    /\ reads = {}
    /\ undefined = FALSE
    /\ crashed = FALSE
    /\ \/ /\ op = "solve"
          /\ board \in Boards81 \cup OtherLengths
          /\ p = Point(0, 0)
          /\ stack = <<Frame(board, 0)>>
          /\ initial = << >>
          /\ candidates = << >>
       \/ /\ op = "find_candidates"
          /\ board \in Boards81
          /\ p \in ProbePoints
          /\ stack = << >>
          /\ initial = << >>
          /\ candidates = << >>
       \/ /\ op \in {"king", "knight"}
          /\ board \in Puzzles
          /\ p \in ChessPoints
          /\ stack = << >>
          /\ initial \in CandidateLists
          /\ candidates = initial

Next ==
    \/ ReturnCompleted
    \/ ScanBranch
    \/ ScanNoSolution
    \/ ScanPastEnd
    \/ ScanBranchPastEnd
    \/ TryCandidate
    \/ DeadEnd
    \/ ReturnAttempt
    \/ NextCandidate
    \/ Finish
    \/ SolveAgain
    \/ CallFindCandidates
    \/ remove_candidates_chess_king
    \/ remove_candidates_chess_knight

Spec == Init /\ [][Next]_vars

\* the call stack runs without suspension: an enabled step is taken
FairSpec == Spec /\ WF_vars(Next)

-----------------------------------------------------------------------------
(* vocabulary of the properties *)

RowCells(r) == {idx(c, r) : c \in 0 .. Side - 1}

ColumnCells(c) == {idx(c, r) : r \in 0 .. Side - 1}

BoxCells(bc, br) ==
    {idx(BoxSide * bc + dc, BoxSide * br + dr) : dc \in 0 .. BoxSide - 1, dr \in 0 .. BoxSide - 1}

Groups ==
    {RowCells(r) : r \in 0 .. Side - 1}
        \cup {ColumnCells(c) : c \in 0 .. Side - 1}
        \cup {BoxCells(bc, br) : bc \in 0 .. BoxSide - 1, br \in 0 .. BoxSide - 1}

\* length 81 and no cell equal to 0
CompleteBoard(b) == Len(b) = Cells /\ \A i \in 0 .. Cells - 1 : At(b, i) # 0

\* every row, column and box holds each digit 1..9 exactly once
ValidBoard(b) ==
    \A g \in Groups : \A d \in Digits : Cardinality({i \in g : At(b, i) = d}) = 1

EmptyCells(b) == {i \in 0 .. Len(b) - 1 : At(b, i) = 0}

\* the cells sharing a row, a column or a box with cell i, other than i
Peers(i) == (UNION {g \in Groups : i \in g}) \ {i}

\* no two filled cells of a row, column or box hold the same value
GivensDistinct(b) ==
    \A i \in 0 .. Cells - 1 :
        At(b, i) # 0 => \A j \in Peers(i) : At(b, j) # At(b, i)

\* the digit f gives an empty cell differs from what every peer holds or is given
FillDistinct(b, f) ==
    \A i \in DOMAIN f :
        \A j \in Peers(i) : (IF j \in DOMAIN f THEN f[j] ELSE At(b, j)) # f[i]

\* some assignment of digits to the empty cells makes every row, column and box
\* hold each digit exactly once.  With all 81 cells filled from 1..9 that is
\* the same as no group holding a value twice.
Solvable(b) ==
    /\ \A i \in 0 .. Cells - 1 : At(b, i) \in 0 .. 9
    /\ GivensDistinct(b)
    /\ \E f \in [EmptyCells(b) -> Digits] : FillDistinct(b, f)

\* two filled cells of one row hold the same digit
RowDuplicate(b) ==
    \E r \in 0 .. Side - 1 : \E c1, c2 \in 0 .. Side - 1 :
        c1 # c2 /\ At(b, idx(c1, r)) # 0 /\ At(b, idx(c1, r)) = At(b, idx(c2, r))

\* solve(board) has returned (results[1]) on a board of length 81
Solved81 == op = "solve" /\ Len(board) = Cells /\ Len(results) >= 1

\* the first call solve(board) is still running on a board of length 81
Searching81 == op = "solve" /\ Len(board) = Cells /\ results = << >>

-----------------------------------------------------------------------------
(* C1 *)

\* C1: whenever solve returns a complete board for an input of length 81 with
\* cells in 0..9, every row, column and 3x3 box of the returned board holds each
\* digit 1..9 exactly once.
C1_ReturnedBoardIsValid ==
    (Solved81 /\ CompleteBoard(results[1])) => ValidBoard(results[1])

(* C2 *)

\* C2: if the input board of length 81 has a valid completion, solve returns a
\* complete board and not the sentinel; and a frame that returns the sentinel
\* because the candidates of its first empty cell are exhausted holds a board
\* with no valid completion.
C2_SolvableIsSolved ==
    /\ (Solved81 /\ Len(results) = 1 /\ pc = "done" /\ Solvable(board))
           => CompleteBoard(results[1])
    /\ (Searching81 /\ pc = "running" /\ stack # << >> /\ Top.st = "loop"
            /\ Top.tried = Len(Top.possibilties))
           => ~Solvable(Top.board)

\* a solvable input with several empty cells: a branch is about to be abandoned
\* at its first empty cell while later cells of its board are still empty
C2_Witness ==
    /\ Searching81 /\ pc = "running" /\ Len(stack) >= 2
    /\ Top.st = "loop" /\ Top.tried = Len(Top.possibilties)
    /\ \E j \in EmptyCells(Top.board) : j > Top.i
    /\ Solvable(board)

(* C3 *)

\* C3: for an input board of length 81 in which two filled cells of one row hold
\* the same digit, solve returns the empty sentinel, never a complete board.
C3_RowDuplicateIsRejected ==
    (Solved81 /\ RowDuplicate(board)) => results[1] = EmptyBoard

(* C4 *)

\* C4: solve(solve(board)) equals solve(board) for every input board of length
\* 81, satisfiable or not: the second call returns, and returns the first result.
C4_Idempotent ==
    (op = "solve" /\ Len(board) = Cells /\ pc = "done" /\ Len(results) >= 1)
        => (~crashed /\ (Len(results) = 2 => results[2] = results[1]))

(* C5 *)

\* the values held by the cells of q's row, q's column and q's 3x3 box
PeerValues(b, q) ==
    {At(b, i) : i \in RowCells(q.row) \cup ColumnCells(q.column)
                        \cup BoxCells(q.column \div BoxSide, q.row \div BoxSide)}

Ascending(seq) == \A m, n \in 1 .. Len(seq) : m < n => seq[m] < seq[n]

Elements(seq) == {seq[n] : n \in 1 .. Len(seq)}

FoundCandidates == op = "find_candidates" /\ pc = "done"

\* C5: on a board of length 81 and an empty cell p, find_candidates returns
\* exactly the digits of 1..9 that occur in no cell of p's row, column or box,
\* each once and in ascending order, and the call leaves the board as it was.
C5_CandidatesAreTheFreeDigits ==
    /\ [](FoundCandidates /\ At(board, idx(p.column, p.row)) = 0
            => /\ Ascending(candidates)
               /\ Elements(candidates) = Digits \ PeerValues(board, p))
    /\ [][op = "find_candidates" => board' = board]_vars

\* an empty cell with more than one free digit
C5_Witness ==
    /\ FoundCandidates
    /\ At(board, idx(p.column, p.row)) = 0
    /\ Len(candidates) >= 2
    /\ PeerValues(board, p) \cap Digits # {}

(* C6 *)

Without(seq, v) == SelectSeq(seq, LAMBDA x : x # v)

\* C6 as stated: boards that differ only in the value stored at p give the
\* same candidates.
C6_OwnValueIsIrrelevant ==
    FoundCandidates =>
        \A v \in 0 .. 9 :
            find_candidates(With(board, idx(p.column, p.row), v), p) = candidates

\* C6 amended: boards that differ only in the value stored at p give candidate
\* lists that agree on every digit other than the two stored values, and a
\* list never holds the value its own board stores at p.
C6_OwnValueIsExcluded ==
    FoundCandidates =>
        /\ \A v \in 0 .. 9 :
              Without(find_candidates(With(board, idx(p.column, p.row), v), p),
                      At(board, idx(p.column, p.row)))
                  = Without(candidates, v)
        /\ \A n \in 1 .. Len(candidates) : candidates[n] # At(board, idx(p.column, p.row))

\* a filled cell whose value no other cell of its row, column or box holds:
\* emptying it changes the candidates
C6_Witness ==
    /\ FoundCandidates
    /\ At(board, idx(p.column, p.row)) # 0
    /\ find_candidates(With(board, idx(p.column, p.row), 0), p) # candidates

(* C7 *)

\* C7: on an input board whose length is not 81, is_completed is false and
\* solve returns the empty sentinel without reading past the end of the board.
C7_OtherLengthsGiveSentinel ==
    (op = "solve" /\ Len(board) # Cells)
        => /\ ~is_completed(board)
           /\ ~undefined
           /\ ~crashed
           /\ Len(results) >= 1 => results[1] = EmptyBoard

(* C8 *)

OnBoard(q) == q.column \in 0 .. Side - 1 /\ q.row \in 0 .. Side - 1

\* the cells at p plus a delta whose column and row both lie in 0..8
NeighbourCells(deltas) ==
    {idx(q.column, q.row) :
        q \in {n \in {PointAdd(p, deltas[m]) : m \in 1 .. Len(deltas)} : OnBoard(n)}}

ChessDeltas == IF op = "king" THEN king_move_deltas ELSE knight_move_deltas

\* C8: remove_candidates_chess_king / _knight remove from a duplicate-free
\* list exactly the values of the neighbours whose coordinates lie in 0..8,
\* read no other cell, and reject a neighbour with a coordinate outside 0..8.
C8_ChessRemovesNeighbourValues ==
    (op \in {"king", "knight"})
        => /\ ~undefined
           /\ ~crashed
           /\ reads \subseteq NeighbourCells(ChessDeltas)
           /\ pc = "done" =>
                 candidates = SelectSeq(initial,
                     LAMBDA x : x \notin {At(board, i) : i \in NeighbourCells(ChessDeltas)})

(* C9 *)

\* C9, the progress measure: below the first call on a board of length 81,
\* every call starts strictly above its caller's start index and at most at 81,
\* every cell below a call's start index is filled, and the number of nested
\* recursive calls is at most the number of empty cells of the input.
C9_Measure ==
    Searching81 =>
        /\ \A d \in 1 .. Len(stack) - 1 :
              /\ stack[d + 1].start_index > stack[d].start_index
              /\ stack[d + 1].start_index <= Cells
        /\ \A d \in 1 .. Len(stack) :
              \A j \in 0 .. stack[d].start_index - 1 : At(stack[d].board, j) # 0
        /\ Len(stack) - 1 <= Cardinality(EmptyCells(board))

\* C9: solve terminates on every input board of length 81, with the progress
\* measure holding all along.
C9_Terminates ==
    /\ []C9_Measure
    /\ (Searching81 ~> (op = "solve" /\ Len(results) >= 1))

\* a search three calls deep below the first
C9_Witness == Searching81 /\ Len(stack) >= 4

(* C10 *)

\* C10: a complete board returned by solve holds the input's value at every
\* filled cell of the input; the first call works on the caller's board, and
\* each nested call's board is its caller's board with one cell written, a
\* cell that is (still) empty in the caller's board.
C10_GivensPreserved ==
    /\ (Solved81 /\ CompleteBoard(results[1]))
           => \A i \in 0 .. Cells - 1 :
                  At(board, i) # 0 => At(results[1], i) = At(board, i)
    /\ Searching81 =>
           /\ stack # << >> => stack[1].board = board
           /\ \A d \in 1 .. Len(stack) - 1 :
                 /\ At(stack[d].board, stack[d].i) = 0
                 /\ \A j \in 0 .. Cells - 1 :
                       j # stack[d].i => At(stack[d + 1].board, j) = At(stack[d].board, j)
                 /\ At(stack[d + 1].board, stack[d].i) \in Digits

\* a complete board returned for an input that had both givens and empty cells,
\* reached after a candidate was abandoned
C10_Witness ==
    /\ Solved81 /\ CompleteBoard(results[1])
    /\ Cardinality(EmptyCells(board)) >= 3
    /\ results[1] # board

====
